---- MODULE Spec2Model ----
(***************************************************************************)
(* Model of Full_Meteo_Swiss_Routine_Daily.py: the MeteoSwiss SMN ETL      *)
(* script (download -> parameter map -> rename -> make_records ->          *)
(* send_data).                                                             *)
(*                                                                         *)
(* Python strings that the code inspects character by character            *)
(* (descriptions and parameter codes) are sequences of one-character       *)
(* strings; column names and cell texts that the code only compares are    *)
(* TLA+ strings.  A Python value is a record [type, cls, n, s]; a float is *)
(* finite (n = its value in tenths), nan, inf or ninf.                     *)
(***************************************************************************)
EXTENDS Integers, Sequences, FiniteSets, TLC

VARIABLES
    pc,         \* position of the running function
    s,          \* clean_name: the argument
    cleaned,    \* clean_name(s)
    recleaned,  \* clean_name(clean_name(s))
    df_data,    \* the raw table (download_csv result / rename argument)
    meta_df,    \* the parameter metadata table
    param_map,  \* code -> English description
    df_named,   \* result of rename_data_columns
    df,         \* the table given to detect_columns / make_records
    time_col,   \* detect_columns: detected time column
    stn_col,    \* detect_columns: detected station column or None
    i,          \* make_records: number of rows consumed from df.iterrows()
    records,    \* make_records: the list being built / send_data: data
    posts,      \* number of POSTs issued to .../send_data
    resp,       \* the response of the POST
    ret,        \* return value of the function under execution
    printed,    \* lines written by print()
    exc         \* the exception that left the function, or "none"

vars == <<pc, s, cleaned, recleaned, df_data, meta_df, param_map, df_named, df,
          time_col, stn_col, i, records, posts, resp, ret, printed, exc>>

(***************************************************************************)
(* Bounds of the model                                                     *)
(***************************************************************************)
MaxLen == 4        \* longest string given to clean_name
MaxCols == 2       \* most columns of a table given to detect_columns / rename
MaxRows == 2       \* most rows of a table given to make_records

(***************************************************************************)
(* Python values                                                           *)
(***************************************************************************)
PyFloat(cls, n) == [type |-> "float", cls |-> cls, n |-> n, s |-> ""]
PyStr(str) == [type |-> "str", cls |-> "", n |-> 0, s |-> str]
PyNone == [type |-> "NoneType", cls |-> "", n |-> 0, s |-> ""]
NoneCol == "<None>"
Unset == [type |-> "unset", cls |-> "", n |-> 0, s |-> ""]
NoTable == [cols |-> <<>>, rows |-> <<>>]
NoResp == [status_code |-> 0, text |-> ""]
EmptyMap == [c \in {} |-> <<>>]

(***************************************************************************)
(* Characters and strings                                                  *)
(***************************************************************************)
UpperLetters == <<"A","B","C","D","E","F","G","H","I","J","K","L","M",
                  "N","O","P","Q","R","S","T","U","V","W","X","Y","Z">>
LowerLetters == <<"a","b","c","d","e","f","g","h","i","j","k","l","m",
                  "n","o","p","q","r","s","t","u","v","w","x","y","z">>
Digits == {"0","1","2","3","4","5","6","7","8","9"}
Range(q) == {q[k] : k \in DOMAIN q}
IsAlnum(c) == c \in Digits \cup Range(UpperLetters) \cup Range(LowerLetters)

SeqsUpTo(S, n) == UNION {[1..k -> S] : k \in 0..n}

RECURSIVE Join(_)
Join(q) == IF q = <<>> THEN "" ELSE Head(q) \o Join(Tail(q))

\* str.lower() on one character
LowerChar(c) ==
    IF \E k \in DOMAIN UpperLetters : UpperLetters[k] = c
    THEN LowerLetters[CHOOSE k \in DOMAIN UpperLetters : UpperLetters[k] = c]
    ELSE c

\* s.split(";")[0]
RECURSIVE split_first(_)
split_first(q) ==
    IF q = <<>> \/ Head(q) = ";" THEN <<>>
    ELSE <<Head(q)>> \o split_first(Tail(q))

\* s.lower()
lower(q) == [k \in DOMAIN q |-> LowerChar(q[k])]

RECURSIVE DropNonAlnum(_)
DropNonAlnum(q) ==
    IF q = <<>> \/ IsAlnum(Head(q)) THEN q ELSE DropNonAlnum(Tail(q))

\* re.sub(r"[^0-9a-zA-Z]+", "_", s)
RECURSIVE sub_non_alnum(_)
sub_non_alnum(q) ==
    IF q = <<>> THEN <<>>
    ELSE IF IsAlnum(Head(q)) THEN <<Head(q)>> \o sub_non_alnum(Tail(q))
    ELSE <<"_">> \o sub_non_alnum(DropNonAlnum(Tail(q)))

RECURSIVE lstrip(_, _)
lstrip(q, c) == IF q # <<>> /\ Head(q) = c THEN lstrip(Tail(q), c) ELSE q

RECURSIVE rstrip(_, _)
rstrip(q, c) ==
    IF q # <<>> /\ q[Len(q)] = c THEN rstrip(SubSeq(q, 1, Len(q) - 1), c) ELSE q

\* s.strip(c)
strip(q, c) == rstrip(lstrip(q, c), c)

\* a plausible slip: the final strip("_") forgotten
clean_name_nostrip(str) == sub_non_alnum(lower(split_first(str)))

clean_name(str) == strip(sub_non_alnum(lower(split_first(str))), "_")

(***************************************************************************)
(* clean_name applied to a string and to its own result                    *)
(***************************************************************************)
NameChars == {"a", "B", "2", ";", "_", " "}

NamesIdle == s = <<>> /\ cleaned = <<>> /\ recleaned = <<>>

TablesIdle ==
    /\ df_data = NoTable /\ meta_df = <<>> /\ param_map = EmptyMap
    /\ df_named = NoTable

ShaperIdle ==
    /\ df = NoTable /\ time_col = NoneCol /\ stn_col = NoneCol
    /\ i = 0 /\ records = <<>>

UploadIdle == posts = 0 /\ resp = NoResp /\ printed = <<>>

InitCleanName ==
    /\ pc = "clean_name"
    /\ s \in SeqsUpTo(NameChars, MaxLen)
    /\ cleaned = <<>> /\ recleaned = <<>>
    /\ TablesIdle /\ ShaperIdle /\ UploadIdle
    /\ ret = Unset /\ exc = "none"

CleanName ==
    /\ pc = "clean_name"
    /\ cleaned' = clean_name(s)
    /\ pc' = "clean_again"
    /\ UNCHANGED <<s, recleaned, df_data, meta_df, param_map, df_named, df,
                   time_col, stn_col, i, records, posts, resp, ret, printed, exc>>

CleanAgain ==
    /\ pc = "clean_again"
    /\ recleaned' = clean_name(cleaned)
    /\ pc' = "cleaned_twice"
    /\ UNCHANGED <<s, cleaned, df_data, meta_df, param_map, df_named, df,
                   time_col, stn_col, i, records, posts, resp, ret, printed, exc>>

NextCleanName == CleanName \/ CleanAgain

SpecCleanName == InitCleanName /\ [][NextCleanName]_vars

CleanChars == Range(LowerLetters) \cup Digits \cup {"_"}

WellFormedName(q) ==
    /\ \A k \in DOMAIN q : q[k] \in CleanChars
    /\ \A k \in 1..(Len(q) - 1) : ~(q[k] = "_" /\ q[k + 1] = "_")
    /\ q # <<>> => (q[1] # "_" /\ q[Len(q)] # "_")

\* C9: clean_name is idempotent, and its result holds only lower-case letters,
\* digits and single underscores, with no leading or trailing underscore.
C9_CleanNameIdempotent ==
    /\ pc \in {"clean_again", "cleaned_twice"} => WellFormedName(cleaned)
    /\ pc = "cleaned_twice" => recleaned = cleaned

\* C9 witness: a string with an upper-case letter, a ';' and punctuation was
\* cleaned to a different, non-empty name and cleaned again.
C9_Witness ==
    /\ pc = "cleaned_twice"
    /\ "B" \in Range(s) /\ ";" \in Range(s) /\ " " \in Range(s)
    /\ cleaned # <<>> /\ cleaned # s

(***************************************************************************)
(* detect_columns                                                          *)
(***************************************************************************)
time_candidates == <<"time", "date", "timestamp", "mes_ts_utc", "datetime">>
station_candidates == <<"station", "stn", "nat_abbr", "stationcode", "smn_id">>

Min(S) == CHOOSE m \in S : \A k \in S : m <= k

\* a plausible slip: the first column of the table that is a candidate
first_in_table_order(cands, cols) ==
    LET hits == {k \in DOMAIN cols : cols[k] \in Range(cands)}
    IN  IF hits = {} THEN NoneCol ELSE cols[Min(hits)]

\* next((c for c in cands if c in df.columns), None)
first_present(cands, cols) ==
    LET hits == {k \in DOMAIN cands : cands[k] \in Range(cols)}
    IN  IF hits = {} THEN NoneCol ELSE cands[Min(hits)]

detect_time(cols) == first_present(time_candidates, cols)
detect_station(cols) == first_present(station_candidates, cols)

\* sequences of distinct elements of S, at most n long
DistinctSeqs(S, n) ==
    {q \in SeqsUpTo(S, n) : \A a, b \in DOMAIN q : a # b => q[a] # q[b]}

DetectNames == Range(time_candidates) \cup {"station", "stn", "tre200s0"}

InitDetect ==
    /\ pc = "detect_columns"
    /\ \E cols \in DistinctSeqs(DetectNames, MaxCols) :
           df = [cols |-> cols, rows |-> <<>>]
    /\ time_col = NoneCol /\ stn_col = NoneCol /\ i = 0 /\ records = <<>>
    /\ NamesIdle /\ TablesIdle /\ UploadIdle
    /\ ret = Unset /\ exc = "none"

DetectColumns ==
    /\ pc = "detect_columns"
    /\ time_col' = detect_time(df.cols)
    /\ stn_col' = detect_station(df.cols)
    /\ IF time_col' = NoneCol
       THEN exc' = "ValueError" /\ pc' = "raised"
       ELSE exc' = exc /\ pc' = "returned"
    /\ UNCHANGED <<s, cleaned, recleaned, df_data, meta_df, param_map, df_named,
                   df, i, records, posts, resp, ret, printed>>

NextDetect == DetectColumns

SpecDetect == InitDetect /\ [][NextDetect]_vars

C8_Priority == <<"time", "date", "timestamp", "mes_ts_utc", "datetime">>

\* C8: detect_columns returns as time column the first name of the priority list
\* time, date, timestamp, mes_ts_utc, datetime that is a column of the table; it
\* raises exactly when none of them is a column, whether or not a station column
\* exists.
C8_TimeColumnPriority ==
    pc \in {"returned", "raised"} =>
        LET present == {k \in DOMAIN C8_Priority : C8_Priority[k] \in Range(df.cols)}
        IN  /\ present # {} =>
                /\ pc = "returned" /\ exc = "none"
                /\ time_col = C8_Priority[Min(present)]
            /\ present = {} => pc = "raised" /\ exc = "ValueError"

\* C8 witness: the table lists "timestamp" before "date" and has no station
\* column; "date", first in the priority list, was returned without an error.
C8_Witness ==
    /\ pc = "returned"
    /\ df.cols = <<"timestamp", "date">>
    /\ time_col = "date" /\ stn_col = NoneCol

(***************************************************************************)
(* Value conversions used by make_records                                  *)
(***************************************************************************)
Raises == [type |-> "raise", cls |-> "", n |-> 0, s |-> ""]

DigitText == <<"0", "1", "2", "3", "4", "5", "6", "7", "8", "9">>

RECURSIVE NatText(_)
NatText(n) ==
    IF n < 10 THEN DigitText[n + 1] ELSE NatText(n \div 10) \o DigitText[(n % 10) + 1]

\* str() of a finite float, given in tenths
float_text(n) ==
    LET a == IF n < 0 THEN -n ELSE n
    IN  (IF n < 0 THEN "-" ELSE "") \o NatText(a \div 10) \o "." \o DigitText[(a % 10) + 1]

\* str(val)
py_str(val) ==
    CASE val.type = "str" -> val.s
      [] val.type = "NoneType" -> "None"
      [] val.type = "float" /\ val.cls = "fin" -> float_text(val.n)
      [] val.type = "float" /\ val.cls = "nan" -> "nan"
      [] val.type = "float" /\ val.cls = "inf" -> "inf"
      [] val.type = "float" /\ val.cls = "ninf" -> "-inf"

\* float(text), for the texts of the model; any other text raises ValueError
str_to_float(text) ==
    CASE text = "12.3" -> PyFloat("fin", 123)
      [] text = "NaN" -> PyFloat("nan", 0)
      [] text = "inf" -> PyFloat("inf", 0)
      [] OTHER -> Raises

\* float(val): a float is kept, a string is parsed, None raises TypeError
py_float(val) ==
    CASE val.type = "float" -> val
      [] val.type = "str" -> str_to_float(val.s)
      [] OTHER -> Raises

\* pd.api.types.is_number(val)
is_number(val) == val.type = "float"

\* pd.notna(fv)
notna(fv) == ~(fv.type = "float" /\ fv.cls = "nan")

\* pd.to_datetime(ts_val, utc=False).strftime("%Y-%m-%dT%H:%M:%S"), for the
\* values of the model: a date text is reformatted, a finite number is
\* nanoseconds after the epoch, anything else raises
to_datetime_strftime(ts_val) ==
    CASE ts_val.type = "str" /\ ts_val.s = "2024-01-01 00:10:00" -> "2024-01-01T00:10:00"
      [] ts_val.type = "str" /\ ts_val.s = "2024-01-01 00:20:00" -> "2024-01-01T00:20:00"
      [] ts_val.type = "float" /\ ts_val.cls = "fin" -> "1970-01-01T00:00:00"
      [] OTHER -> "<raise>"

(***************************************************************************)
(* make_records                                                            *)
(***************************************************************************)
DEFAULT_KEY == "SMN_UNSPECIFIED"

\* row[c]
row_get(cols, row, c) == row[Min({k \in DOMAIN cols : cols[k] = c})]

\* exclude = {time_col}; if stn_col: exclude.add(stn_col)
exclude_of(tc, sc) == {tc} \cup (IF sc # NoneCol THEN {sc} ELSE {})

\* the timestamp of a row
row_timestamp(cols, row, tc) ==
    LET ts_val == row_get(cols, row, tc)
        ts == to_datetime_strftime(ts_val)
    IN  IF ts = "<raise>" THEN py_str(ts_val) ELSE ts

\* the key of a row
row_key(cols, row, sc) ==
    IF sc # NoneCol THEN py_str(row_get(cols, row, sc)) ELSE DEFAULT_KEY

\* whether the metric loop stores val
metric_kept(val) ==
    \/ is_number(val)
    \/ (py_float(val) # Raises /\ notna(py_float(val)))

\* the metric loop
row_payload(cols, row, tc, sc) ==
    LET kept == {c \in Range(cols) \ exclude_of(tc, sc) :
                     metric_kept(row_get(cols, row, c))}
    IN  [c \in kept |-> py_float(row_get(cols, row, c))]

\* record = {"key": key, "timestamp": ts}; record.update(payload)
make_record(cols, row, tc, sc) ==
    row_payload(cols, row, tc, sc)
        @@ [key |-> PyStr(row_key(cols, row, sc)),
            timestamp |-> PyStr(row_timestamp(cols, row, tc))]

TimeCells == {PyStr("2024-01-01 00:10:00"), PyStr("n/a")}
StationCells == {PyStr("BER"), PyFloat("fin", 50)}
MetricCells == {PyFloat("fin", 123), PyFloat("nan", 0), PyFloat("inf", 0),
                PyStr("12.3"), PyStr("NaN"), PyStr("inf"), PyStr("junk"), PyNone}
KeyCells == {PyFloat("fin", 70), PyStr("junk")}
StampCells == {PyFloat("fin", 17), PyStr("2024-01-01 00:20:00")}

CellsOf(name) ==
    CASE name = "timestamp" -> StampCells
      [] name = "key" -> KeyCells
      [] name \in Range(time_candidates) -> TimeCells
      [] name \in Range(station_candidates) -> StationCells
      [] OTHER -> MetricCells

\* the rows over the columns cols whose cells are drawn from Cells(name)
RowsOver(cols, Cells(_)) ==
    {row \in [DOMAIN cols -> UNION {Cells(cols[k]) : k \in DOMAIN cols}] :
         \A k \in DOMAIN cols : row[k] \in Cells(cols[k])}

\* t is a table with one of the headers and at most n rows
TableOver(t, headers, Cells(_), n) ==
    \E cols \in headers : \E k \in 0..n : \E rows \in [1..k -> RowsOver(cols, Cells)] :
        t = [cols |-> cols, rows |-> rows]

ShapeHeaders == {<<"time", "tre200s0">>, <<"time", "station", "tre200s0">>,
                 <<"time", "key">>, <<"time", "timestamp">>,
                 <<"date", "stn", "key">>, <<"station", "key">>}

InitShape ==
    /\ pc = "make_records"
    /\ TableOver(df, ShapeHeaders, CellsOf, MaxRows)
    /\ time_col = NoneCol /\ stn_col = NoneCol /\ i = 0 /\ records = <<>>
    /\ NamesIdle /\ TablesIdle /\ UploadIdle
    /\ ret = Unset /\ exc = "none"

\* time_col, stn_col = detect_columns(df); exclude; records = []
MakeRecordsEnter ==
    /\ pc = "make_records"
    /\ time_col' = detect_time(df.cols)
    /\ stn_col' = detect_station(df.cols)
    /\ IF time_col' = NoneCol
       THEN exc' = "ValueError" /\ pc' = "raised"
       ELSE exc' = exc /\ pc' = "iterrows"
    /\ records' = <<>> /\ i' = 0
    /\ UNCHANGED <<s, cleaned, recleaned, df_data, meta_df, param_map, df_named,
                   df, posts, resp, ret, printed>>

\* a plausible slip: a row without any metric is filtered out
ShapeRowFiltered ==
    /\ pc = "iterrows"
    /\ i < Len(df.rows)
    /\ records' = IF row_payload(df.cols, df.rows[i + 1], time_col, stn_col) = EmptyMap
                  THEN records
                  ELSE Append(records, make_record(df.cols, df.rows[i + 1], time_col, stn_col))
    /\ i' = i + 1
    /\ UNCHANGED <<pc, s, cleaned, recleaned, df_data, meta_df, param_map, df_named,
                   df, time_col, stn_col, posts, resp, ret, printed, exc>>

\* one iteration of: for _, row in df.iterrows(): ... records.append(record)
ShapeRow ==
    /\ pc = "iterrows"
    /\ i < Len(df.rows)
    /\ records' = Append(records, make_record(df.cols, df.rows[i + 1], time_col, stn_col))
    /\ i' = i + 1
    /\ UNCHANGED <<pc, s, cleaned, recleaned, df_data, meta_df, param_map, df_named,
                   df, time_col, stn_col, posts, resp, ret, printed, exc>>

\* return records
MakeRecordsReturn ==
    /\ pc = "iterrows"
    /\ i = Len(df.rows)
    /\ ret' = records
    /\ pc' = "returned"
    /\ UNCHANGED <<s, cleaned, recleaned, df_data, meta_df, param_map, df_named,
                   df, time_col, stn_col, i, records, posts, resp, printed, exc>>

NextShape == MakeRecordsEnter \/ ShapeRow \/ MakeRecordsReturn

SpecShape == InitShape /\ [][NextShape]_vars

MetricFields(rec) == DOMAIN rec \ {"key", "timestamp"}

\* C1: every metric field present in a record produced by make_records holds a
\* finite float: never a string, never NaN, never an infinity.
C1_MetricsFinite ==
    \A r \in DOMAIN records : \A f \in MetricFields(records[r]) :
        records[r][f].type = "float" /\ records[r][f].cls = "fin"

\* C2: every record has a key field and a timestamp field whose values are the
\* row's station key and the row's timestamp, also when the table has a metric
\* column named "key" or "timestamp".
C2_KeyAndTimestampKept ==
    pc \in {"iterrows", "returned"} =>
        \A r \in DOMAIN records :
            /\ {"key", "timestamp"} \subseteq DOMAIN records[r]
            /\ records[r]["key"] = PyStr(row_key(df.cols, df.rows[r], stn_col))
            /\ records[r]["timestamp"] = PyStr(row_timestamp(df.cols, df.rows[r], time_col))

C7_Stations == <<"station", "stn", "nat_abbr", "stationcode", "smn_id">>

\* C7: with a station column detected (the first candidate present), each
\* record's key is the row's station value stringified and the station column
\* is no metric; with none detected, every record's key is "SMN_UNSPECIFIED".
C7_KeyFromStationColumn ==
    pc \in {"iterrows", "returned"} =>
        LET present == {k \in DOMAIN C7_Stations : C7_Stations[k] \in Range(df.cols)}
        IN  \A r \in DOMAIN records :
                IF present = {}
                THEN records[r]["key"] = PyStr("SMN_UNSPECIFIED")
                ELSE LET sc == C7_Stations[Min(present)]
                     IN  /\ records[r]["key"] = PyStr(py_str(row_get(df.cols, df.rows[r], sc)))
                         /\ sc \notin MetricFields(records[r])

NonNumeric(val) ==
    \/ val.type = "NoneType"
    \/ val.type = "str" /\ val.s \notin {"12.3", "NaN", "inf"}

\* the record rec is the one the row yields
BuiltFromRow(rec, cols, row, tc, sc) ==
    LET metrics == Range(cols) \ exclude_of(tc, sc)
    IN  /\ {"key", "timestamp"} \subseteq DOMAIN rec
        /\ MetricFields(rec) \subseteq metrics
        /\ \A k \in DOMAIN cols :
               cols[k] \in metrics =>
                   /\ NonNumeric(row[k]) => cols[k] \notin MetricFields(rec)
                   /\ row[k].type = "float" =>
                          cols[k] \in DOMAIN rec /\ rec[cols[k]] = row[k]
                   /\ row[k] = PyStr("12.3") =>
                          cols[k] \in DOMAIN rec /\ rec[cols[k]] = PyFloat("fin", 123)
        /\ "timestamp" \notin metrics =>
               rec["timestamp"] = PyStr(row_timestamp(cols, row, tc))

\* C6: for a table with a time column make_records returns one record per row,
\* in row order: the r-th record is built from the r-th row, and a non-numeric
\* or missing cell removes its field from the record but never the record.
C6_OneRecordPerRow ==
    /\ pc = "raised" => \A k \in DOMAIN df.cols : df.cols[k] \notin Range(time_candidates)
    /\ pc \in {"iterrows", "returned"} =>
           /\ Len(records) = i
           /\ pc = "returned" => i = Len(df.rows) /\ ret = records
           /\ \A r \in DOMAIN records :
                  BuiltFromRow(records[r], df.cols, df.rows[r], time_col, stn_col)

\* C6 witness: a two-row table whose first row has only a junk metric and whose
\* second row has a numeric one was shaped into two different records, the
\* first without any metric.
C6_Witness ==
    /\ pc = "returned"
    /\ df.cols = <<"time", "station", "tre200s0">>
    /\ Len(df.rows) = 2
    /\ df.rows[1][3] = PyStr("junk") /\ df.rows[2][3] = PyStr("12.3")
    /\ Len(records) = 2
    /\ MetricFields(records[1]) = {} /\ MetricFields(records[2]) = {"tre200s0"}

(***************************************************************************)
(* rename_data_columns                                                     *)
(***************************************************************************)
\* present_map = {c: param_map_full[c] for c in df_data.columns if c in param_map_full}
present_map(cols, pm) == [c \in Range(cols) \cap DOMAIN pm |-> pm[c]]

\* a plausible slip: the descriptions are used as they are, not cleaned
uncleaned_map(pmap) == [c \in DOMAIN pmap |-> Join(pmap[c])]

\* present_map = {k: clean_name(v) for k, v in present_map.items()}
cleaned_map(pmap) == [c \in DOMAIN pmap |-> Join(clean_name(pmap[c]))]

\* df_data.rename(columns=present_map)
rename(table, cmap) ==
    [cols |-> [k \in DOMAIN table.cols |->
                   IF table.cols[k] \in DOMAIN cmap THEN cmap[table.cols[k]]
                   ELSE table.cols[k]],
     rows |-> table.rows]

rename_data_columns(table, pm) == rename(table, cleaned_map(present_map(table.cols, pm)))

MaxRenameRows == 1   \* most rows of a table given to rename_data_columns

RawCodes == {"reference_timestamp", "tre200s0", "rre150z0"}
MapCodes == {"tre200s0", "rre150z0", "xno000z0"}
Descriptions == {<<"T", "e", "m", "p", ";", " ", "C">>, <<" ", "t", "e", "m", "p", "-">>,
                 <<"R", "a", "i", "n", " ", "1", "0", "m">>}
RenameCells == {PyFloat("fin", 123), PyStr("junk")}
RenameCellsOf(name) == RenameCells

ParamMaps == UNION {[D -> Descriptions] : D \in SUBSET MapCodes}

InitRename ==
    /\ pc = "rename_data_columns"
    /\ TableOver(df_data, DistinctSeqs(RawCodes, MaxCols), RenameCellsOf, MaxRenameRows)
    /\ param_map \in ParamMaps
    /\ meta_df = <<>> /\ df_named = NoTable
    /\ NamesIdle /\ ShaperIdle /\ UploadIdle
    /\ ret = Unset /\ exc = "none"

RenameDataColumns ==
    /\ pc = "rename_data_columns"
    /\ df_named' = rename_data_columns(df_data, param_map)
    /\ pc' = "returned"
    /\ UNCHANGED <<s, cleaned, recleaned, df_data, meta_df, param_map, df,
                   time_col, stn_col, i, records, posts, resp, ret, printed, exc>>

NextRename == RenameDataColumns

SpecRename == InitRename /\ [][NextRename]_vars

\* C10: rename_data_columns relabels exactly the columns whose name is a key of
\* the mapping, each to the cleaned name of its description, and leaves the other
\* names, the number and order of the columns and the cells unchanged; it is the
\* identity when no column is a key, and several columns may get the same name.
C10_RenameFrame ==
    pc = "returned" =>
        /\ exc = "none"
        /\ Len(df_named.cols) = Len(df_data.cols)
        /\ df_named.rows = df_data.rows
        /\ \A k \in DOMAIN df_data.cols :
               IF df_data.cols[k] \in DOMAIN param_map
               THEN df_named.cols[k] = Join(clean_name(param_map[df_data.cols[k]]))
               ELSE df_named.cols[k] = df_data.cols[k]
        /\ Range(df_data.cols) \cap DOMAIN param_map = {} => df_named = df_data

\* C10 witness: two different mapped columns of a table with a row were renamed
\* to the same cleaned name.
C10_Witness ==
    /\ pc = "returned"
    /\ Len(df_data.cols) = 2 /\ Len(df_data.rows) = 1
    /\ df_data.cols[1] # df_data.cols[2]
    /\ df_named.cols = <<"temp", "temp">>

(***************************************************************************)
(* send_data                                                               *)
(***************************************************************************)
\* a plausible slip: any 2xx status taken as success
status_is_2xx(code) == code >= 200 /\ code < 300

\* resp.status_code == 200
status_ok(code) == code = 200

\* the line printed and the value returned for a response
send_result(response, data) ==
    IF status_ok(response.status_code)
    THEN [line |-> [what |-> "sent", count |-> Len(data), status_code |-> 0, text |-> ""],
          value |-> TRUE]
    ELSE [line |-> [what |-> "failed", count |-> 0,
                    status_code |-> response.status_code, text |-> response.text],
          value |-> FALSE]

Statuses == {200, 201, 202, 204, 301, 400, 401, 403, 404, 500, 503}
Texts == {"", "invalid key"}
Responses == [status_code : Statuses, text : Texts]
TransportErrors == {"ConnectionError", "Timeout"}

UploadBatches ==
    {<<>>,
     <<[key |-> PyStr("BER"), timestamp |-> PyStr("2024-01-01T00:10:00")]>>,
     <<[key |-> PyStr("BER"), timestamp |-> PyStr("2024-01-01T00:10:00")],
       [key |-> PyStr("LUG"), timestamp |-> PyStr("2024-01-01T00:10:00")]>>}

InitUpload ==
    /\ pc = "send_data"
    /\ records \in UploadBatches
    /\ df = NoTable /\ time_col = NoneCol /\ stn_col = NoneCol /\ i = 0
    /\ NamesIdle /\ TablesIdle /\ UploadIdle
    /\ ret = Unset /\ exc = "none"

\* resp = requests.post(url, json=data, headers=headers, timeout=60)
SendPost ==
    /\ pc = "send_data"
    /\ posts' = posts + 1
    /\ \/ \E r \in Responses : resp' = r /\ exc' = exc /\ pc' = "check_status"
       \/ \E e \in TransportErrors : resp' = resp /\ exc' = e /\ pc' = "raised"
    /\ UNCHANGED <<s, cleaned, recleaned, df_data, meta_df, param_map, df_named,
                   df, time_col, stn_col, i, records, ret, printed>>

\* if resp.status_code == 200: print, return True; else print, return False
SendReturn ==
    /\ pc = "check_status"
    /\ printed' = Append(printed, send_result(resp, records).line)
    /\ ret' = send_result(resp, records).value
    /\ pc' = "returned"
    /\ UNCHANGED <<s, cleaned, recleaned, df_data, meta_df, param_map, df_named,
                   df, time_col, stn_col, i, records, posts, resp, exc>>

NextUpload == SendPost \/ SendReturn

SpecUpload == InitUpload /\ [][NextUpload]_vars

\* C5: send_data issues a single POST; once a response is received no exception
\* leaves it, it returns True if and only if the status is 200, and for any
\* other status it prints the status code and the response text and returns
\* False.
C5_SuccessOnlyOn200 ==
    /\ posts <= 1
    /\ pc \in {"check_status", "returned"} => posts = 1 /\ exc = "none"
    /\ pc = "returned" =>
           /\ ret = TRUE <=> resp.status_code = 200
           /\ resp.status_code # 200 =>
                  /\ ret = FALSE
                  /\ Len(printed) = 1
                  /\ printed[1].what = "failed"
                  /\ printed[1].status_code = resp.status_code
                  /\ printed[1].text = resp.text

\* C5 witness: the endpoint answered 201 with a body; send_data returned False
\* after one POST.
C5_Witness ==
    /\ pc = "returned"
    /\ resp = [status_code |-> 201, text |-> "invalid key"]
    /\ ret = FALSE /\ posts = 1

(***************************************************************************)
(* build_param_map_from_df                                                 *)
(***************************************************************************)
\* a cell of the metadata table (read with dtype=str): a text or a missing value
MetaText(q) == [isna |-> FALSE, chars |-> q]
MetaNaN == [isna |-> TRUE, chars |-> <<>>]

\* sub = meta_df.iloc[:, [0, 4]].dropna(): the rows with a code and a description
meta_sub(meta) ==
    LET RECURSIVE Pick(_)
        Pick(k) == IF k > Len(meta) THEN <<>>
                   ELSE (IF ~meta[k][1].isna /\ ~meta[k][5].isna
                         THEN <<<<meta[k][1].chars, meta[k][5].chars>>>> ELSE <<>>)
                            \o Pick(k + 1)
    IN  Pick(1)

\* dict(zip(codes.str.strip(), descriptions.str.strip())): a later row wins
RECURSIVE zip_dict(_)
zip_dict(sub) ==
    IF sub = <<>> THEN EmptyMap
    ELSE LET last == sub[Len(sub)]
         IN  (Join(strip(last[1], " ")) :> strip(last[2], " "))
                 @@ zip_dict(SubSeq(sub, 1, Len(sub) - 1))

build_param_map_from_df(meta) == zip_dict(meta_sub(meta))

(***************************************************************************)
(* main                                                                    *)
(***************************************************************************)
MaxRawRows == 1    \* most rows of a downloaded table

make_records_params == <<"df">>

\* whether a Python call with npos positional arguments and the keyword
\* arguments kwargs binds to the parameter list params
call_binds(params, npos, kwargs) ==
    /\ npos <= Len(params)
    /\ \A kw \in kwargs : \E k \in (npos + 1)..Len(params) : params[k] = kw

MetaRow(code, desc) == <<code, MetaNaN, MetaNaN, MetaNaN, desc>>
Code_tre == MetaText(<<"t", "r", "e", "2", "0", "0", "s", "0">>)
Code_rre == MetaText(<<" ", "r", "r", "e", "1", "5", "0", "z", "0">>)

MetaTables ==
    {<<>>,
     <<MetaRow(Code_tre, MetaText(<<"T", "e", "m", "p", ";", " ", "C">>))>>,
     <<MetaRow(Code_tre, MetaText(<<"o", "l", "d">>)), MetaRow(Code_rre, MetaNaN),
       MetaRow(Code_tre, MetaText(<<" ", "T", "e", "m", "p", " ">>))>>,
     <<MetaRow(Code_rre, MetaText(<<"R", "a", "i", "n">>)),
       MetaRow(MetaNaN, MetaText(<<"x">>))>>}

RawHeaders == {<<"station_abbr", "reference_timestamp", "tre200s0">>,
               <<"time", "stn", "tre200s0">>, <<"time", "rre150z0">>}

RawCellsOf(name) ==
    CASE name = "reference_timestamp" -> TimeCells
      [] name = "station_abbr" -> StationCells
      [] OTHER -> CellsOf(name)

DownloadErrors == {"ConnectionError", "Timeout", "HTTPError"}

Init ==
    /\ pc = "download"
    /\ NamesIdle /\ TablesIdle /\ ShaperIdle /\ UploadIdle
    /\ ret = Unset /\ exc = "none"

\* df_data = download_csv(URL_DATA)
MainDownload ==
    /\ pc = "download"
    /\ \/ \E e \in DownloadErrors : exc' = e /\ df_data' = df_data /\ pc' = "raised"
       \/ TableOver(df_data', RawHeaders, RawCellsOf, MaxRawRows) /\ exc' = exc /\ pc' = "load_meta"
    /\ UNCHANGED <<s, cleaned, recleaned, meta_df, param_map, df_named, df,
                   time_col, stn_col, i, records, posts, resp, ret, printed>>

\* df_meta = pd.read_csv(PARAM_FILE, sep=";", encoding="latin1", dtype=str)
MainLoadMeta ==
    /\ pc = "load_meta"
    /\ \/ exc' = "FileNotFoundError" /\ meta_df' = meta_df /\ pc' = "raised"
       \/ \E m \in MetaTables : meta_df' = m /\ exc' = exc /\ pc' = "build_map"
    /\ UNCHANGED <<s, cleaned, recleaned, df_data, param_map, df_named, df,
                   time_col, stn_col, i, records, posts, resp, ret, printed>>

\* param_map = build_param_map_from_df(df_meta)
MainBuildMap ==
    /\ pc = "build_map"
    /\ param_map' = build_param_map_from_df(meta_df)
    /\ pc' = "rename"
    /\ UNCHANGED <<s, cleaned, recleaned, df_data, meta_df, df_named, df,
                   time_col, stn_col, i, records, posts, resp, ret, printed, exc>>

\* df_named = rename_data_columns(df_data, param_map)
MainRename ==
    /\ pc = "rename"
    /\ df_named' = rename_data_columns(df_data, param_map)
    /\ pc' = "make_records"
    /\ UNCHANGED <<s, cleaned, recleaned, df_data, meta_df, param_map, df,
                   time_col, stn_col, i, records, posts, resp, ret, printed, exc>>

\* records = make_records(df_named, time_col = 'reference_timestamp');
\* if not records: print, return; send_data(PROJECT_ID, COLLECTION_ID, WRITE_KEY, records)
MainShapeSend ==
    /\ pc = "make_records"
    /\ IF ~call_binds(make_records_params, 1, {"time_col"})
       THEN /\ exc' = "TypeError" /\ pc' = "raised"
            /\ UNCHANGED <<df, time_col, stn_col, i, records, posts, resp, ret, printed>>
       ELSE /\ df' = df_named
            /\ time_col' = detect_time(df_named.cols)
            /\ stn_col' = detect_station(df_named.cols)
            /\ IF time_col' = NoneCol
               THEN /\ exc' = "ValueError" /\ pc' = "raised"
                    /\ UNCHANGED <<i, records, posts, resp, ret, printed>>
               ELSE /\ records' = [r \in DOMAIN df_named.rows |->
                                       make_record(df_named.cols, df_named.rows[r],
                                                   time_col', stn_col')]
                    /\ i' = Len(df_named.rows)
                    /\ IF records' = <<>>
                       THEN /\ printed' = Append(printed,
                                    [what |-> "no records", count |-> 0,
                                     status_code |-> 0, text |-> ""])
                            /\ pc' = "done" /\ exc' = exc
                            /\ UNCHANGED <<posts, resp, ret>>
                       ELSE /\ posts' = posts + 1
                            /\ \/ \E r \in Responses :
                                      /\ resp' = r
                                      /\ printed' = Append(printed, send_result(r, records').line)
                                      /\ ret' = send_result(r, records').value
                                      /\ exc' = exc /\ pc' = "done"
                               \/ \E e \in TransportErrors :
                                      /\ exc' = e /\ pc' = "raised"
                                      /\ UNCHANGED <<resp, ret, printed>>
    /\ UNCHANGED <<s, cleaned, recleaned, df_data, meta_df, param_map, df_named>>

Next == MainDownload \/ MainLoadMeta \/ MainBuildMap \/ MainRename \/ MainShapeSend

Spec == Init /\ [][Next]_vars

HasTimeColumn(cols) == \E k \in DOMAIN cols : cols[k] \in Range(time_candidates)

\* the download and the metadata load succeeded and the run has ended
EndedAfterLoading ==
    /\ pc \in {"done", "raised"}
    /\ exc \notin DownloadErrors \cup {"FileNotFoundError"}

\* C3: a run of main whose download and metadata load succeed and whose table
\* has a time column and at least one row (so that the shaped sequence is not
\* empty) reaches the uploader: it ends having shaped every row and issued
\* exactly one send_data POST.
C3_LinearRunPosts ==
    (EndedAfterLoading /\ HasTimeColumn(df_named.cols) /\ df_named.rows # <<>>) =>
        /\ Len(records) = Len(df_named.rows)
        /\ posts = 1

HasParseFailure(table) ==
    \E r \in DOMAIN table.rows : \E k \in DOMAIN table.cols :
        \/ table.rows[r][k] = PyStr("n/a")
        \/ table.rows[r][k] = PyStr("junk")

\* C4: a run of main that ends by a transport error of the download or by the
\* schema error has issued no POST, and a run whose table has a time column
\* and holds an unparseable timestamp or a non-numeric metric is not aborted:
\* every row is shaped.
C4_AbortPolicy ==
    /\ (pc = "raised" /\ exc \in DownloadErrors \cup {"ValueError"}) => posts = 0
    /\ (EndedAfterLoading /\ HasTimeColumn(df_named.cols) /\ HasParseFailure(df_named)) =>
           /\ exc \notin {"TypeError", "ValueError"}
           /\ Len(records) = Len(df_named.rows)

====
